---- MODULE Spec2Model ----
(***************************************************************************)
(* The command interpreter of degenerate: Command::from_str, Command::apply *)
(* (src/src/command.rs) and the driver that runs a program of commands      *)
(* against the interpreter State.                                           *)
(***************************************************************************)
EXTENDS Integers, Sequences, FiniteSets, TLC

(***************************************************************************)
(* Bounds of the model.                                                     *)
(***************************************************************************)
\* usize is modelled as an unsigned integer of UsizeBits bits.
UsizeBits == 3
\* longest control-flow program drawn by Init
MaxLen == 5
\* the execution counters of the observer saturate here
MaxCount == 7
\* lines read by one interactive session
MaxLines == 2

RECURSIVE Pow2(_)
Pow2(n) == IF n = 0 THEN 1 ELSE 2 * Pow2(n - 1)

UsizeModulus == Pow2(UsizeBits)
UsizeMax == UsizeModulus - 1
wrapping_add(a, b) == (a + b) % UsizeModulus
wrapping_sub(a, b) == (a - b + UsizeModulus) % UsizeModulus

(***************************************************************************)
(* Text.  A string is a sequence of one-character strings, so that split,   *)
(* parse and "contains" are computed on the characters.                     *)
(***************************************************************************)
KwAll == <<"a","l","l">>
KwCircle == <<"c","i","r","c","l","e">>
KwCross == <<"c","r","o","s","s">>
KwFor == <<"f","o","r">>
KwInvert == <<"i","n","v","e","r","t">>
KwLoad == <<"l","o","a","d">>
KwLoop == <<"l","o","o","p">>
KwMod == <<"m","o","d">>
KwPrint == <<"p","r","i","n","t">>
KwRandom == <<"r","a","n","d","o","m">>
KwRepl == <<"r","e","p","l">>
KwResize == <<"r","e","s","i","z","e">>
KwRotate == <<"r","o","t","a","t","e">>
KwRotateColor == <<"r","o","t","a","t","e","-","c","o","l","o","r">>
KwRows == <<"r","o","w","s">>
KwSave == <<"s","a","v","e">>
KwSquare == <<"s","q","u","a","r","e">>
KwTop == <<"t","o","p">>
KwVerbose == <<"v","e","r","b","o","s","e">>
KwX == <<"x">>

\* Display texts of the errors from_str can return
MsgInvalidCommand ==
  <<"I","n","v","a","l","i","d"," ","c","o","m","m","a","n","d",":"," ">>
MsgIntEmpty ==
  <<"c","a","n","n","o","t"," ","p","a","r","s","e"," ","i","n","t","e","g","e","r"," ","f","r","o","m"," ","e","m","p","t","y"," ","s","t","r","i","n","g">>
MsgIntInvalidDigit ==
  <<"i","n","v","a","l","i","d"," ","d","i","g","i","t"," ","f","o","u","n","d"," ","i","n"," ","s","t","r","i","n","g">>
MsgIntPosOverflow ==
  <<"n","u","m","b","e","r"," ","t","o","o"," ","l","a","r","g","e"," ","t","o"," ","f","i","t"," ","i","n"," ","t","a","r","g","e","t"," ","t","y","p","e">>
MsgFloatEmpty ==
  <<"c","a","n","n","o","t"," ","p","a","r","s","e"," ","f","l","o","a","t"," ","f","r","o","m"," ","e","m","p","t","y"," ","s","t","r","i","n","g">>
MsgFloatInvalid ==
  <<"i","n","v","a","l","i","d"," ","f","l","o","a","t"," ","l","i","t","e","r","a","l">>

\* the report of the interactive loop; ' stands for the backquote
MsgCouldNotParse ==
  <<"C","o","u","l","d"," ","n","o","t"," ","p","a","r","s","e"," ","c","o","m","m","a","n","d"," ","f","r","o","m"," ","'">>

\* the texts a command is parsed from (argv words, lines typed at the prompt)
Lines ==
  { <<"a","l","l">>,
    <<"t","o","p">>,
    <<"m","o","d",":","2",":","0">>,
    <<"m","o","d",":","2",":","1">>,
    <<"i","n","v","e","r","t">>,
    <<"r","a","n","d","o","m">>,
    <<"f","o","r",":","0">>,
    <<"f","o","r",":","1">>,
    <<"l","o","o","p">>,
    <<"r","o","t","a","t","e",":","0",".","5">>,
    <<"r","o","t","a","t","e",":","0",".","2","5">>,
    <<"r","o","t","a","t","e",":","0">>,
    <<"r","e","s","i","z","e",":","2",":","1">>,
    <<"r","e","s","i","z","e",":","1",":","2">>,
    <<"r","e","s","i","z","e",":","1",":","1">>,
    <<"v","e","r","b","o","s","e">>,
    <<"p","r","i","n","t">>,
    <<"l","o","a","d">>,
    <<"l","o","a","d",":","a">>,
    <<"s","a","v","e">>,
    <<"s","a","v","e",":","a">>,
    <<"r","e","p","l">>,
    <<"e","v","e","n">>,
    <<>>,
    <<"a","l","l",":","1">>,
    <<"f","o","r">>,
    <<"f","o","r",":","a","b","c">>,
    <<"f","o","r",":">>,
    <<"f","o","r",":","1",":","2">>,
    <<"f","o","r",":","9","9">>,
    <<"m","o","d",":","x",":","0">>,
    <<"m","o","d",":","2">>,
    <<"r","o","t","a","t","e",":","q">>,
    <<"r","e","s","i","z","e",":","2",":","z">>,
    <<"L","o","o","p">> }

\* s.split(':'): the pieces between the colons; the empty text has one empty piece
RECURSIVE SplitRec(_, _)
SplitRec(s, cur) ==
  IF s = <<>> THEN <<cur>>
  ELSE IF Head(s) = ":" THEN <<cur>> \o SplitRec(Tail(s), <<>>)
  ELSE SplitRec(Tail(s), Append(cur, Head(s)))

split(s) == SplitRec(s, <<>>)

\* sub occurs in s as a contiguous run of characters
Contains(s, sub) ==
  \E i \in 0..(Len(s) - Len(sub)) : SubSeq(s, i + 1, i + Len(sub)) = sub

Digits == {"0", "1", "2", "3", "4", "5", "6", "7", "8", "9"}

DigitValue(c) ==
  CASE c = "0" -> 0 [] c = "1" -> 1 [] c = "2" -> 2 [] c = "3" -> 3 [] c = "4" -> 4
    [] c = "5" -> 5 [] c = "6" -> 6 [] c = "7" -> 7 [] c = "8" -> 8 [] c = "9" -> 9

AllDigits(t) == \A i \in 1..Len(t) : t[i] \in Digits

RECURSIVE DecValue(_)
DecValue(t) ==
  IF t = <<>> THEN 0 ELSE 10 * DecValue(SubSeq(t, 1, Len(t) - 1)) + DigitValue(t[Len(t)])

Ok(v) == [ok |-> TRUE, value |-> v]
Err(m) == [ok |-> FALSE, message |-> m]

\* str::parse::<usize>: an optional '+', then digits, the value within usize
ParseUsize(t) ==
  IF t = <<>> THEN Err(MsgIntEmpty)
  ELSE LET body == IF Head(t) = "+" THEN Tail(t) ELSE t
       IN  IF body = <<>> \/ ~AllDigits(body) THEN Err(MsgIntInvalidDigit)
           ELSE IF DecValue(body) > UsizeMax THEN Err(MsgIntPosOverflow)
           ELSE Ok(DecValue(body))

\* str::parse::<f64> on plain decimals (sign, digits, '.', at most two
\* fraction digits); the value is kept in hundredths
ParseF64(t) ==
  IF t = <<>> THEN Err(MsgFloatEmpty)
  ELSE LET signed == Head(t) \in {"+", "-"}
           body   == IF signed THEN Tail(t) ELSE t
           dots   == {i \in 1..Len(body) : body[i] = "."}
           dot    == IF dots = {} THEN Len(body) + 1 ELSE CHOOSE i \in dots : TRUE
           int    == SubSeq(body, 1, dot - 1)
           frac   == SubSeq(body, dot + 1, Len(body))
           frac2  == IF Len(frac) = 0 THEN <<"0", "0">>
                     ELSE IF Len(frac) = 1 THEN Append(frac, "0") ELSE frac
           mag    == 100 * DecValue(int) + DecValue(frac2)
       IN  IF Cardinality(dots) > 1 \/ ~AllDigits(int) \/ ~AllDigits(frac)
              \/ Len(int) + Len(frac) = 0 \/ Len(frac) > 2
           THEN Err(MsgFloatInvalid)
           ELSE Ok(IF signed /\ Head(t) = "-" THEN 0 - mag ELSE mag)

(***************************************************************************)
(* enum Command, and the filters and operations it carries.                 *)
(***************************************************************************)
CmdFilter(f)     == [op |-> "Filter", filter |-> f]
CmdFor(until)    == [op |-> "For", until |-> until]
CmdLoad(path)    == [op |-> "Load", path |-> path]
CmdLoop          == [op |-> "Loop"]
CmdOperation(o)  == [op |-> "Operation", operation |-> o]
CmdPrint         == [op |-> "Print"]
CmdRepl          == [op |-> "Repl"]
CmdResize(r, c)  == [op |-> "Resize", rows |-> r, cols |-> c]
CmdRotate(turns) == [op |-> "Rotate", turns |-> turns]
CmdSave(path)    == [op |-> "Save", path |-> path]
CmdVerbose       == [op |-> "Verbose"]

\* Option<PathBuf>
None == [some |-> FALSE]
Some(p) == [some |-> TRUE, path |-> p]

FilterAll    == [kind |-> "All"]
FilterCircle == [kind |-> "Circle"]
FilterCross  == [kind |-> "Cross"]
FilterSquare == [kind |-> "Square"]
FilterTop    == [kind |-> "Top"]
FilterX      == [kind |-> "X"]
FilterMod(d, r)  == [kind |-> "Mod", divisor |-> d, remainder |-> r]
FilterRows(n, s) == [kind |-> "Rows", nrows |-> n, step |-> s]

Invert == [kind |-> "Invert"]
Random == [kind |-> "Random"]
RotateColor(axis, turns) == [kind |-> "RotateColor", axis |-> axis, turns |-> turns]

\* the catch-all arm of from_str: the text is quoted in the message
InvalidCommand(s) == Err(MsgInvalidCommand \o s)

\* impl FromStr for Command.  An argument that does not parse returns the
\* argument parser's own error (the ? after parse()).
FromStr(s) ==
  LET t  == split(s)
      n  == Len(t)
      kw == t[1]
  IN  IF      n = 1 /\ kw = KwAll     THEN Ok(CmdFilter(FilterAll))
      ELSE IF n = 1 /\ kw = KwCircle  THEN Ok(CmdFilter(FilterCircle))
      ELSE IF n = 1 /\ kw = KwCross   THEN Ok(CmdFilter(FilterCross))
      ELSE IF n = 2 /\ kw = KwFor     THEN
        LET count == ParseUsize(t[2])
        IN  IF count.ok THEN Ok(CmdFor(count.value)) ELSE count
      ELSE IF n = 1 /\ kw = KwInvert  THEN Ok(CmdOperation(Invert))
      ELSE IF n = 2 /\ kw = KwLoad    THEN Ok(CmdLoad(Some(t[2])))
      ELSE IF n = 1 /\ kw = KwLoad    THEN Ok(CmdLoad(None))
      ELSE IF n = 1 /\ kw = KwLoop    THEN Ok(CmdLoop)
      ELSE IF n = 3 /\ kw = KwMod     THEN
        LET divisor   == ParseUsize(t[2])
            remainder == ParseUsize(t[3])
        IN  IF ~divisor.ok THEN divisor
            ELSE IF ~remainder.ok THEN remainder
            ELSE Ok(CmdFilter(FilterMod(divisor.value, remainder.value)))
      ELSE IF n = 1 /\ kw = KwPrint   THEN Ok(CmdPrint)
      ELSE IF n = 1 /\ kw = KwRandom  THEN Ok(CmdOperation(Random))
      ELSE IF n = 1 /\ kw = KwRepl    THEN Ok(CmdRepl)
      ELSE IF n = 3 /\ kw = KwResize  THEN
        LET rows == ParseUsize(t[3])
            cols == ParseUsize(t[2])
        IN  IF ~rows.ok THEN rows
            ELSE IF ~cols.ok THEN cols
            ELSE Ok(CmdResize(rows.value, cols.value))
      ELSE IF n = 2 /\ kw = KwRotate  THEN
        LET turns == ParseF64(t[2])
        IN  IF turns.ok THEN Ok(CmdRotate(turns.value)) ELSE turns
      ELSE IF n = 3 /\ kw = KwRotateColor THEN
        LET axis  == ParseF64(t[2])
            turns == ParseF64(t[3])
        IN  IF ~axis.ok THEN axis
            ELSE IF ~turns.ok THEN turns
            ELSE Ok(CmdOperation(RotateColor(axis.value, turns.value)))
      ELSE IF n = 3 /\ kw = KwRows    THEN
        LET nrows == ParseUsize(t[2])
            step  == ParseUsize(t[3])
        IN  IF ~nrows.ok THEN nrows
            ELSE IF ~step.ok THEN step
            ELSE Ok(CmdFilter(FilterRows(nrows.value, step.value)))
      ELSE IF n = 2 /\ kw = KwSave    THEN Ok(CmdSave(Some(t[2])))
      ELSE IF n = 1 /\ kw = KwSave    THEN Ok(CmdSave(None))
      ELSE IF n = 1 /\ kw = KwSquare  THEN Ok(CmdFilter(FilterSquare))
      ELSE IF n = 1 /\ kw = KwTop     THEN Ok(CmdFilter(FilterTop))
      ELSE IF n = 1 /\ kw = KwVerbose THEN Ok(CmdVerbose)
      ELSE IF n = 1 /\ kw = KwX       THEN Ok(CmdFilter(FilterX))
      ELSE InvalidCommand(s)

(***************************************************************************)
(* The colour matrix.  A colour is a Vector3 with channels 0 or 1; a matrix *)
(* is addressed (row, col) from 0, as DMatrix is.                           *)
(***************************************************************************)
Channels == {0, 1}
Colors == {<<r, g, b>> : r \in Channels, g \in Channels, b \in Channels}
zeros == <<0, 0, 0>>

\* DMatrix::zeros(nrows, ncols)
Zeros(nrows, ncols) ==
  [nrows |-> nrows, ncols |-> ncols,
   data  |-> [p \in (0..(nrows - 1)) \X (0..(ncols - 1)) |-> zeros]]

\* matrix.get((row, col)): Some(cell) inside the grid, None outside
Get(m, row, col) ==
  IF row \in 0..(m.nrows - 1) /\ col \in 0..(m.ncols - 1)
  THEN [some |-> TRUE, value |-> m.data[<<row, col>>]]
  ELSE [some |-> FALSE]

\* state.dimensions(): x is the number of columns, y the number of rows
dimensions(m) == [x |-> m.ncols, y |-> m.nrows]

Min(a, b) == IF a < b THEN a ELSE b

(***************************************************************************)
(* Coordinates.  A coordinate is kept in doubled pixel units measured from  *)
(* the grid centre: the uniform aspect scale applied by coordinates() and   *)
(* removed by pixel() commutes with a rotation and is left out.  Rotations  *)
(* are whole quarter turns, kept in hundredths of a turn.                   *)
(***************************************************************************)
coordinates(i, dims) == [x |-> 2 * i.x + 1 - dims.x, y |-> 2 * i.y + 1 - dims.y]

pixel(v, dims) == [x |-> (v.x + dims.x) \div 2, y |-> (v.y + dims.y) \div 2]

\* Rotation2::new(turns * TAU)
Rotation2(turns) == turns % 100

\* rotation * v, counter-clockwise
Rotated(rotation, v) ==
  CASE rotation \div 25 = 0 -> v
    [] rotation \div 25 = 1 -> [x |-> 0 - v.y, y |-> v.x]
    [] rotation \div 25 = 2 -> [x |-> 0 - v.x, y |-> 0 - v.y]
    [] rotation \div 25 = 3 -> [x |-> v.y, y |-> 0 - v.x]

\* Filter::filter(state, pixel, coordinate)
filter(f, dims, i, v) ==
  CASE f.kind = "All"    -> TRUE
    [] f.kind = "Top"    -> 2 * i.y < dims.y
    [] f.kind = "Mod"    -> (i.x * dims.y + i.y) % f.divisor = f.remainder
    [] f.kind = "Circle" -> v.x * v.x + v.y * v.y <= Min(dims.x, dims.y) * Min(dims.x, dims.y)
    [] f.kind = "Square" -> /\ 2 * v.x <= Min(dims.x, dims.y) /\ 0 - 2 * v.x <= Min(dims.x, dims.y)
                            /\ 2 * v.y <= Min(dims.x, dims.y) /\ 0 - 2 * v.y <= Min(dims.x, dims.y)

\* Operation::apply(rng, colour); draw is the colour the rng yields next
OperationApply(operation, draw, color) ==
  CASE operation.kind = "Invert" -> <<1 - color[1], 1 - color[2], 1 - color[3]>>
    [] operation.kind = "Random" -> draw

(***************************************************************************)
(* The interpreter State and Command::apply, one operator per match arm.    *)
(* A State is the record of the fields apply reads and writes.              *)
(***************************************************************************)
VARIABLES
  matrix,           \* state.matrix
  rotation,         \* state.rotation, in hundredths of a turn
  operation,        \* state.operation
  program,          \* state.program
  program_counter,  \* state.program_counter
  loop_counter,     \* state.loop_counter
  verbose,          \* state.verbose
  status,           \* where the process is: "running", "repl", "finished", "failed", "panicked"
  executed,         \* observer: how often the driver applied each program index
  last,             \* observer: the last command applied and the state it was applied to
  repl              \* observer: the interactive session so far

vars == <<matrix, rotation, operation, program, program_counter, loop_counter,
          verbose, status, executed, last, repl>>

State ==
  [matrix |-> matrix, rotation |-> rotation, operation |-> operation,
   program |-> program, program_counter |-> program_counter,
   loop_counter |-> loop_counter, verbose |-> verbose]

\* program.get(index): index counts from 0
ProgramGet(prog, index) ==
  IF index < Len(prog) THEN [some |-> TRUE, value |-> prog[index + 1]] ELSE [some |-> FALSE]

IsLoopOrNone(c) == ~c.some \/ c.value.op = "Loop"
IsForOrNone(c)  == ~c.some \/ c.value.op = "For"

\* variant: the step samples the matrix it is writing
SampleInPlace(m, output, i) ==
  LET cell == Get(output, i.y, i.x)
  IN  IF cell.some THEN cell.value ELSE zeros

\* variant: the sampled cell is never read, the default colour is used
SampleDefaultOnly(m, output, i) == zeros

\* variant: a source pixel outside the grid is moved to the nearest cell
SampleClamped(m, output, i) ==
  m.data[<<IF i.y < 0 THEN 0 ELSE Min(i.y, m.nrows - 1),
           IF i.x < 0 THEN 0 ELSE Min(i.x, m.ncols - 1)>>]

\* the cell a render step samples: the state's matrix at the source pixel,
\* zeros when there is no such cell
Sample(m, output, i) ==
  LET cell == Get(m, i.y, i.x)
  IN  IF cell.some THEN cell.value ELSE zeros

\* the destination pixels in the order of the two loops: columns outside, rows inside
PixelAt(k, m) == [x |-> k \div m.nrows, y |-> k % m.nrows]

\* variant: the filter is asked about the destination pixel
FilterIndexDest(dest, i) == dest

\* the pixel index handed to the filter: i is rebound to the pixel of the
\* rotated coordinate before the filter is asked
FilterIndex(dest, i) == i

\* one pass of the loop body for destination pixel k
RenderPixel(st, f, rnd, k, output) ==
  LET dest == PixelAt(k, st.matrix)
      v    == Rotated(st.rotation, coordinates(dest, dimensions(st.matrix)))
      i    == pixel(v, dimensions(st.matrix))
      hit  == filter(f, dimensions(st.matrix), FilterIndex(dest, i), v)
      c    == Sample(st.matrix, output, i)
  IN  [output |-> IF hit
                  THEN [output EXCEPT !.data[<<dest.y, dest.x>>] =
                                        OperationApply(st.operation, rnd[k], c)]
                  ELSE output,
       sample |-> [dest |-> dest, source |-> i, coordinate |-> v,
                   index |-> FilterIndex(dest, i), matched |-> hit,
                   color |-> IF hit THEN c ELSE zeros]]

RECURSIVE RenderFrom(_, _, _, _, _, _)
RenderFrom(st, f, rnd, k, output, samples) ==
  IF k >= st.matrix.nrows * st.matrix.ncols
  THEN [output |-> output, samples |-> samples]
  ELSE LET r == RenderPixel(st, f, rnd, k, output)
       IN  RenderFrom(st, f, rnd, k + 1, r.output, Append(samples, r.sample))

\* variant: output starts as a blank matrix instead of a clone
ApplyFilterBlankOutput(st, f, rnd) ==
  LET r == RenderFrom(st, f, rnd, 0, Zeros(st.matrix.nrows, st.matrix.ncols), <<>>)
  IN  [state |-> [st EXCEPT !.matrix = r.output], samples |-> r.samples]

\* Self::Filter(filter): output starts as a clone and replaces the matrix at the end
ApplyFilter(st, f, rnd) ==
  LET r == RenderFrom(st, f, rnd, 0, st.matrix, <<>>)
  IN  [state |-> [st EXCEPT !.matrix = r.output], samples |-> r.samples]

\* variant: the scan does not look for a loop and runs to the end of the program
ScanForwardToEnd(prog, pc) == IF pc < Len(prog) THEN Len(prog) ELSE wrapping_add(pc, 1)

\* the forward scan of For
RECURSIVE ScanForward(_, _)
ScanForward(prog, pc) ==
  LET next == wrapping_add(pc, 1)
  IN  IF IsLoopOrNone(ProgramGet(prog, next)) THEN next ELSE ScanForward(prog, next)

\* variant: the bound is tested with > instead of >=
ApplyForOffByOne(st, until) ==
  IF st.loop_counter > until
  THEN [st EXCEPT !.program_counter = ScanForward(st.program, st.program_counter),
                  !.loop_counter = 0]
  ELSE st

\* variant: the loop counter is reset after the if instead of inside it
ApplyForAlwaysResets(st, until) ==
  IF st.loop_counter >= until
  THEN [st EXCEPT !.program_counter = ScanForward(st.program, st.program_counter),
                  !.loop_counter = 0]
  ELSE [st EXCEPT !.loop_counter = 0]

\* variant: the skip leaves the loop counter as it is
ApplyForKeepsCounter(st, until) ==
  IF st.loop_counter >= until
  THEN [st EXCEPT !.program_counter = ScanForward(st.program, st.program_counter)]
  ELSE st

\* Self::For(until)
ApplyFor(st, until) ==
  IF st.loop_counter >= until
  THEN [st EXCEPT !.program_counter = ScanForward(st.program, st.program_counter),
                  !.loop_counter = 0]
  ELSE st

\* variant: the scan does not look for a for and stops only at the start
ScanBackwardToStart(prog, pc) == wrapping_sub(0, 1)

\* variant: the scan has no test for the start of the program
RECURSIVE ScanBackwardNoStartTest(_, _)
ScanBackwardNoStartTest(prog, pc) ==
  LET back == wrapping_sub(pc, 1)
      next == wrapping_add(back, 1)
  IN  IF IsForOrNone(ProgramGet(prog, next)) THEN back
      ELSE ScanBackwardNoStartTest(prog, back)

\* the backward scan of Loop
RECURSIVE ScanBackward(_, _)
ScanBackward(prog, pc) ==
  LET back == wrapping_sub(pc, 1)
      next == wrapping_add(back, 1)
  IN  IF next = 0 THEN back
      ELSE IF IsForOrNone(ProgramGet(prog, next)) THEN back
      ELSE ScanBackward(prog, back)

\* variant: the jump back is taken without counting the pass
ApplyLoopNoCount(st) ==
  [st EXCEPT !.program_counter = ScanBackward(st.program, st.program_counter)]

\* variant: the scan stops on the for itself, so that the driver resumes at
\* the first command of the body
ApplyLoopToBody(st) ==
  [st EXCEPT !.program_counter = wrapping_add(ScanBackward(st.program, st.program_counter), 1),
             !.loop_counter = wrapping_add(st.loop_counter, 1)]

\* Self::Loop, when loop_counter += 1 does not overflow or wraps
ApplyLoop(st) ==
  [st EXCEPT !.program_counter = ScanBackward(st.program, st.program_counter),
             !.loop_counter = wrapping_add(st.loop_counter, 1)]

ApplyOperation(st, o) == [st EXCEPT !.operation = o]
\* variant: the two dimensions are taken in the other order
ApplyResizeSwapped(st, nrows, ncols) == [st EXCEPT !.matrix = Zeros(ncols, nrows)]

\* Self::Resize(dimensions): dimensions is (rows, columns)
ApplyResize(st, nrows, ncols) == [st EXCEPT !.matrix = Zeros(nrows, ncols)]

ApplyRotate(st, turns) == [st EXCEPT !.rotation = Rotation2(turns)]
\* variant: a command that is not a loop starts a fresh block
ApplyVerboseResetsCounter(st) == [st EXCEPT !.verbose = ~st.verbose, !.loop_counter = 0]

\* Self::Verbose
ApplyVerbose(st) == [st EXCEPT !.verbose = ~st.verbose]

\* state.load(path): the decoded image replaces the matrix
ApplyLoad(st, image) == [st EXCEPT !.matrix = image]

Done(st)   == [result |-> "ok", state |-> st, samples |-> <<>>]
Failed(st) == [result |-> "err", state |-> st, samples |-> <<>>]
Panic(st)  == [result |-> "panic", state |-> st, samples |-> <<>>]

\* Command::apply for every command but Repl.  env holds what the world
\* decides: whether the file or terminal operation succeeds, the image a
\* load decodes, the colours the rng yields, and whether the build checks
\* arithmetic overflow (it panics) or wraps.
Apply(cmd, st, env) ==
  CASE cmd.op = "Filter" ->
         LET r == ApplyFilter(st, cmd.filter, env.rnd)
         IN  [result |-> "ok", state |-> r.state, samples |-> r.samples]
    [] cmd.op = "For"  -> Done(ApplyFor(st, cmd.until))
    [] cmd.op = "Load" -> IF env.io_ok THEN Done(ApplyLoad(st, env.image)) ELSE Failed(st)
    [] cmd.op = "Loop" ->
         IF st.loop_counter = UsizeMax /\ env.overflow_checks
         THEN Panic([st EXCEPT !.program_counter = ScanBackward(st.program, st.program_counter)])
         ELSE Done(ApplyLoop(st))
    [] cmd.op = "Operation" -> Done(ApplyOperation(st, cmd.operation))
    [] cmd.op = "Print"   -> IF env.io_ok THEN Done(st) ELSE Failed(st)
    [] cmd.op = "Resize"  -> Done(ApplyResize(st, cmd.rows, cmd.cols))
    [] cmd.op = "Rotate"  -> Done(ApplyRotate(st, cmd.turns))
    [] cmd.op = "Save"    -> IF env.io_ok THEN Done(st) ELSE Failed(st)
    [] cmd.op = "Verbose" -> Done(ApplyVerbose(st))

(***************************************************************************)
(* What the world supplies.                                                 *)
(***************************************************************************)
\* the colours the rng yields
Draws == {<<0, 0, 0>>, <<1, 0, 1>>}

ImagesOf(nrows, ncols) ==
  {[nrows |-> nrows, ncols |-> ncols, data |-> d] :
     d \in [(0..(nrows - 1)) \X (0..(ncols - 1)) -> Draws]}

\* the images a load can decode
LoadImages == ImagesOf(2, 1) \cup ImagesOf(1, 2)

Envs(cmd, st) ==
  LET cells == st.matrix.nrows * st.matrix.ncols
      io    == IF cmd.op \in {"Load", "Print", "Save"} THEN BOOLEAN ELSE {TRUE}
      image == IF cmd.op = "Load" THEN LoadImages ELSE {st.matrix}
      rnd   == IF cmd.op = "Filter" /\ st.operation.kind = "Random"
               THEN [0..(cells - 1) -> Draws]
               ELSE {[k \in 0..(cells - 1) |-> zeros]}
      ovf   == IF cmd.op = "Loop" /\ st.loop_counter = UsizeMax THEN BOOLEAN ELSE {FALSE}
  IN  {[io_ok |-> a, image |-> b, rnd |-> c, overflow_checks |-> d] :
         a \in io, b \in image, c \in rnd, d \in ovf}

(***************************************************************************)
(* The programs a run starts with.                                          *)
(***************************************************************************)
SeqsUpTo(S, n) == UNION {[1..k -> S] : k \in 0..n}

\* the loop counts of for:N
Untils == {0, 1, 5}

ControlCommands == {CmdFor(u) : u \in Untils} \cup {CmdLoop, CmdVerbose}
ControlPrograms == SeqsUpTo(ControlCommands, MaxLen)

\* command-line words of rendering commands, parsed into a program
ArgWords ==
  { <<"a","l","l">>, <<"t","o","p">>, <<"m","o","d",":","2",":","0">>,
    <<"r","a","n","d","o","m">>, <<"r","o","t","a","t","e",":","0",".","5">>,
    <<"r","o","t","a","t","e",":","0",".","2","5">>,
    <<"r","e","s","i","z","e",":","1",":","2">>, <<"l","o","a","d">>,
    <<"p","r","i","n","t">>, <<"s","a","v","e",":","a">> }
\* longest rendering program
MaxArgs == 2
RenderPrograms ==
  {[k \in 1..Len(w) |-> FromStr(w[k]).value] : w \in SeqsUpTo(ArgWords, MaxArgs)}

\* a rendering command, a quarter turn, and a rendering command under it
RotatedPrograms ==
  {<<FromStr(a).value, FromStr(<<"r","o","t","a","t","e",":","0",".","2","5">>).value,
     FromStr(b).value>> :
     a \in {<<"a","l","l">>, <<"l","o","a","d">>},
     b \in {<<"a","l","l">>, <<"t","o","p">>}}

Programs == ControlPrograms \cup RenderPrograms \cup RotatedPrograms \cup {<<CmdRepl>>}

\* the grid of a fresh State (rows, columns), scaled down from the terminal-sized default
DefaultDimensions == <<2, 1>>

Init ==
  /\ program \in Programs
  /\ matrix = Zeros(DefaultDimensions[1], DefaultDimensions[2])
  /\ rotation = 0
  /\ operation = Invert
  /\ program_counter = 0
  /\ loop_counter = 0
  /\ verbose = FALSE
  /\ status = "running"
  /\ executed = [k \in 0..(Len(program) - 1) |-> 0]
  /\ last = [by |-> "none"]
  /\ repl = [lines |-> 0, applied |-> 0, outcome |-> "none"]

SetState(st) ==
  /\ matrix' = st.matrix
  /\ rotation' = st.rotation
  /\ operation' = st.operation
  /\ program' = st.program
  /\ program_counter' = st.program_counter
  /\ loop_counter' = st.loop_counter
  /\ verbose' = st.verbose

Bump(n) == IF n < MaxCount THEN n + 1 ELSE n

(***************************************************************************)
(* The driver: while program[program_counter] exists, apply it and advance  *)
(* the counter by one; an error ends the run.                               *)
(***************************************************************************)
Current == ProgramGet(program, program_counter)

Advance(st) == [st EXCEPT !.program_counter = wrapping_add(st.program_counter, 1)]

Run ==
  /\ status = "running"
  /\ Current.some
  /\ Current.value.op # "Repl"
  /\ \E env \in Envs(Current.value, State) :
     \E out \in {Apply(Current.value, State, env)} :
           /\ \E st \in {IF out.result = "ok" THEN Advance(out.state) ELSE out.state} :
                SetState(st)
           /\ status' = CASE out.result = "ok" -> "running"
                          [] out.result = "err" -> "failed"
                          [] out.result = "panic" -> "panicked"
           /\ last' = [by |-> "driver", cmd |-> Current.value, before |-> State,
                       result |-> out.result, samples |-> out.samples]
  /\ executed' = [executed EXCEPT ![program_counter] = Bump(@)]
  /\ UNCHANGED repl

Halt ==
  /\ status = "running"
  /\ ~Current.some
  /\ status' = "finished"
  /\ UNCHANGED <<matrix, rotation, operation, program, program_counter, loop_counter,
                 verbose, executed, last, repl>>

(***************************************************************************)
(* Self::Repl: the interactive loop.                                        *)
(***************************************************************************)
EnterRepl ==
  /\ status = "running"
  /\ Current.some
  /\ Current.value.op = "Repl"
  /\ status' = "repl"
  /\ executed' = [executed EXCEPT ![program_counter] = Bump(@)]
  /\ UNCHANGED <<matrix, rotation, operation, program, program_counter, loop_counter,
                 verbose, last, repl>>

\* editor.readline("> ")? fails: end of input, interrupt
ReplReadError ==
  /\ status = "repl"
  /\ status' = "failed"
  /\ repl' = [repl EXCEPT !.outcome = "read_error"]
  /\ UNCHANGED <<matrix, rotation, operation, program, program_counter, loop_counter,
                 verbose, executed, last>>

\* editor.save_history(&history)? fails
ReplHistoryError ==
  /\ status = "repl"
  /\ repl.lines < MaxLines
  /\ \E line \in Lines :
       repl' = [lines |-> repl.lines + 1, applied |-> repl.applied,
                outcome |-> "history_error", line |-> line]
  /\ status' = "failed"
  /\ UNCHANGED <<matrix, rotation, operation, program, program_counter, loop_counter,
                 verbose, executed, last>>

\* variant: the parse error is returned with ? instead of being matched
ReplParseFailedAborts(st, line, err) ==
  [status |-> "failed", state |-> st, applied |-> FALSE, stderr |-> err.message]

\* the Err arm: the line and the error go to stderr, the loop goes on
ReplParseFailed(st, line, err) ==
  [status |-> "repl", state |-> st, applied |-> FALSE,
   stderr |-> MsgCouldNotParse \o line \o <<"'", ":", " ">> \o err.message]

\* variant: the command typed is also pushed onto the program
ReplEvalAppend(st, command, env) ==
  LET out == IF command.op = "Repl" THEN Done(st) ELSE Apply(command, st, env)
  IN  [out EXCEPT !.state.program = Append(@, command)]

\* the Ok arm up to the first ?: command.apply(state)
ReplEval(st, command, env) ==
  IF command.op = "Repl" THEN Done(st) ELSE Apply(command, st, env)

ReplParseError ==
  /\ status = "repl"
  /\ repl.lines < MaxLines
  /\ \E line \in Lines :
       /\ ~FromStr(line).ok
       /\ \E r \in {ReplParseFailed(State, line, FromStr(line))} :
              /\ SetState(r.state)
              /\ status' = r.status
              /\ repl' = [lines |-> repl.lines + 1,
                          applied |-> IF r.applied THEN repl.applied + 1 ELSE repl.applied,
                          outcome |-> "parse_error", line |-> line,
                          error |-> FromStr(line).message, stderr |-> r.stderr,
                          before |-> State, applied_before |-> repl.applied]
  /\ UNCHANGED <<executed, last>>

ReplApply ==
  /\ status = "repl"
  /\ repl.lines < MaxLines
  /\ \E line \in Lines :
       /\ FromStr(line).ok
       /\ \E command \in {FromStr(line).value} :
              \E env \in Envs(command, State), print_ok \in BOOLEAN :
                \E out \in {ReplEval(State, command, env)} :
                    /\ SetState(out.state)
                    /\ status' = CASE out.result = "panic" -> "panicked"
                                   [] out.result = "err" -> "failed"
                                   [] command.op = "Repl" -> "repl"
                                   [] print_ok -> "repl"
                                   [] OTHER -> "failed"
                    /\ last' = [by |-> "repl", cmd |-> command, before |-> State,
                                result |-> out.result, samples |-> out.samples]
                    /\ repl' = [lines |-> repl.lines + 1, applied |-> repl.applied + 1,
                                outcome |-> IF out.result # "ok" THEN "apply_error"
                                            ELSE IF command.op = "Repl" THEN "nested"
                                            ELSE IF print_ok THEN "printed"
                                            ELSE "print_error",
                                line |-> line]
  /\ UNCHANGED executed

Next ==
  \/ Run
  \/ Halt
  \/ EnterRepl
  \/ ReplReadError
  \/ ReplHistoryError
  \/ ReplParseError
  \/ ReplApply

Spec == Init /\ [][Next]_vars

\* the process is single-threaded and never suspends outside the prompt, so
\* the driver takes its next step whenever it has one
DriverStep == Run \/ Halt \/ EnterRepl

FairSpec == Spec /\ WF_vars(DriverStep)

(***************************************************************************)
(* The shape of a program's for/loop commands.                              *)
(***************************************************************************)
IsControl(c) == c.op \in {"For", "Loop"}
ControlOps(prog) == [k \in 1..Len(SelectSeq(prog, IsControl)) |-> SelectSeq(prog, IsControl)[k].op]
HasRepl(prog) == \E k \in 1..Len(prog) : prog[k].op = "Repl"
ForIndexes(prog) == {k \in 0..(Len(prog) - 1) : prog[k + 1].op = "For"}
LoopIndexes(prog) == {k \in 0..(Len(prog) - 1) : prog[k + 1].op = "Loop"}

\* the first loop after index f
LoopAfter(prog, f) == CHOOSE l \in LoopIndexes(prog) :
                        l > f /\ \A m \in LoopIndexes(prog) : m > f => l <= m

\* one closed block, or two closed blocks one after the other
OneOrTwoBlocks(prog) ==
  /\ ~HasRepl(prog)
  /\ ControlOps(prog) \in {<<"For", "Loop">>, <<"For", "Loop", "For", "Loop">>}

\* for and loop alternate, starting with for: every loop closes the block opened last
Alternating(prog) ==
  \A k \in 1..Len(ControlOps(prog)) :
    ControlOps(prog)[k] = IF k % 2 = 1 THEN "For" ELSE "Loop"

\* a for opened while another block is open
HasNesting(prog) ==
  \E k \in 1..(Len(ControlOps(prog)) - 1) :
    ControlOps(prog)[k] = "For" /\ ControlOps(prog)[k + 1] = "For"

\* the for a loop at index l belongs to when blocks nest; -1 when there is none
RECURSIVE MatchingFor(_, _, _)
MatchingFor(prog, k, depth) ==
  IF k < 0 THEN 0 - 1
  ELSE IF prog[k + 1].op = "Loop" THEN MatchingFor(prog, k - 1, depth + 1)
  ELSE IF prog[k + 1].op = "For"
       THEN IF depth = 0 THEN k ELSE MatchingFor(prog, k - 1, depth - 1)
  ELSE MatchingFor(prog, k - 1, depth)

\* the loop a for at index f belongs to when blocks nest; the length when there is none
RECURSIVE MatchingLoop(_, _, _)
MatchingLoop(prog, k, depth) ==
  IF k >= Len(prog) THEN Len(prog)
  ELSE IF prog[k + 1].op = "For" THEN MatchingLoop(prog, k + 1, depth + 1)
  ELSE IF prog[k + 1].op = "Loop"
       THEN IF depth = 0 THEN k ELSE MatchingLoop(prog, k + 1, depth - 1)
  ELSE MatchingLoop(prog, k + 1, depth)

\* the driver has just applied a command of kind op with success
DriverApplied(op) ==
  /\ last.by = "driver"
  /\ last.cmd.op = op
  /\ last.result = "ok"

NestedLoopsJumpToPartner ==
  (ControlOps(program) = <<"For", "For", "Loop", "Loop">> /\ ~HasRepl(program)) =>
    /\ DriverApplied("Loop") =>
         program_counter = MatchingFor(program, last.before.program_counter - 1, 0)
    /\ (DriverApplied("For") /\ last.before.loop_counter >= last.cmd.until) =>
         program_counter = MatchingLoop(program, last.before.program_counter + 1, 0) + 1

(***************************************************************************)
(* C3: every program without repl and without a nested pair halts with the  *)
(* program counter out of range (or stops on a failed or panicking          *)
(* command).                                                                *)
(***************************************************************************)
Stopped == status \in {"finished", "failed", "panicked"}

UnnestedProgramsHalt ==
  <>(HasRepl(program) \/ HasNesting(program) \/ Stopped)

\* C3 as amended: the same for the programs in which for and loop alternate,
\* so that every loop closes the block opened last (a trailing for without
\* loop included)
AlternatingProgramsHalt ==
  <>(HasRepl(program) \/ ~Alternating(program) \/ status \in {"finished", "failed"})

AlternatingProgramsHaltWitness ==
  /\ status = "finished"
  /\ ~HasRepl(program)
  /\ Alternating(program)
  /\ ControlOps(program) = <<"For", "Loop", "For">>
  /\ \E l \in LoopIndexes(program) : executed[l] = 5

(***************************************************************************)
(* Render steps, seen through the record of the last command applied.       *)
(***************************************************************************)
Rendered == last.by \in {"driver", "repl"} /\ last.cmd.op = "Filter" /\ last.result = "ok"

\* the cell of matrix m at pixel p, zeros when p is outside the grid
CellOrZeros(m, p) ==
  IF p.y \in 0..(m.nrows - 1) /\ p.x \in 0..(m.ncols - 1) THEN m.data[<<p.y, p.x>>] ELSE zeros

InGrid(m, p) == p.y \in 0..(m.nrows - 1) /\ p.x \in 0..(m.ncols - 1)

(***************************************************************************)
(* C4: every colour a render step samples is the value the source cell held *)
(* before the step began, for every destination pixel the filter matches.   *)
(***************************************************************************)
RenderSamplesPreStepMatrix ==
  Rendered =>
    /\ Len(last.samples) = last.before.matrix.nrows * last.before.matrix.ncols
    /\ \A k \in 1..Len(last.samples) :
         last.samples[k].matched =>
           last.samples[k].color = CellOrZeros(last.before.matrix, last.samples[k].source)

\* a matched pixel whose source cell is another cell that this step rewrote
RenderSamplesPreStepMatrixWitness ==
  /\ Rendered
  /\ \E k \in 1..Len(last.samples) :
       /\ last.samples[k].matched
       /\ last.samples[k].source # last.samples[k].dest
       /\ InGrid(matrix, last.samples[k].source)
       /\ CellOrZeros(matrix, last.samples[k].source)
            # CellOrZeros(last.before.matrix, last.samples[k].source)

(***************************************************************************)
(* C5: after a render step the matrix has the dimensions it had, every      *)
(* pixel the filter did not match holds its prior value, and every matched  *)
(* pixel holds the operation's result for the sampled colour (the           *)
(* complement for Invert, a drawn colour for Random).                       *)
(***************************************************************************)
RenderWritesMatchedPixelsOnly ==
  Rendered =>
    /\ matrix.nrows = last.before.matrix.nrows
    /\ matrix.ncols = last.before.matrix.ncols
    /\ \A k \in 1..Len(last.samples) :
         LET s == last.samples[k]
             d == <<s.dest.y, s.dest.x>>
         IN  /\ ~s.matched => matrix.data[d] = last.before.matrix.data[d]
             /\ (s.matched /\ last.before.operation.kind = "Invert") =>
                  \A c \in 1..3 : matrix.data[d][c] + s.color[c] = 1
             /\ (s.matched /\ last.before.operation.kind = "Random") =>
                  matrix.data[d] \in Draws

\* a step that matched one pixel and left another, non-zero, pixel alone
RenderWritesMatchedPixelsOnlyWitness ==
  /\ Rendered
  /\ \E j, k \in 1..Len(last.samples) :
       /\ last.samples[j].matched
       /\ ~last.samples[k].matched
       /\ matrix.data[<<last.samples[k].dest.y, last.samples[k].dest.x>>] # zeros

ReplSurvivesApplyError ==
  (last.by = "repl" /\ last.result = "err") => status = "repl"

(***************************************************************************)
(* C8: a line that does not parse leaves the whole interpreter State as it  *)
(* was, applies no command, and the loop goes on to read the next line.     *)
(***************************************************************************)
ReplParseErrorChangesNothing ==
  repl.outcome = "parse_error" =>
    /\ State = repl.before
    /\ repl.applied = repl.applied_before
    /\ status = "repl"

\* a parse error after a command of the same session changed the state
ReplParseErrorChangesNothingWitness ==
  /\ repl.outcome = "parse_error"
  /\ repl.lines = 2
  /\ repl.applied = 1
  /\ matrix # Zeros(DefaultDimensions[1], DefaultDimensions[2])

(***************************************************************************)
(* C9: no step of the driver or of the interactive loop changes the         *)
(* program.                                                                 *)
(***************************************************************************)
ProgramIsImmutable == [][program' = program]_vars

\* the interactive loop has applied a loop typed as its second line
ProgramIsImmutableWitness ==
  /\ last.by = "repl"
  /\ last.cmd.op = "Loop"
  /\ repl.lines = 2
  /\ program = <<CmdRepl>>

(***************************************************************************)
(* C10: the error from_str returns for a text it cannot parse contains the  *)
(* offending text: the whole text, or the argument that does not parse.     *)
(***************************************************************************)
Arguments(line) == {split(line)[k] : k \in 2..Len(split(line))}

ParseErrorNamesText ==
  repl.outcome = "parse_error" =>
    \/ Contains(repl.error, repl.line)
    \/ \E a \in Arguments(repl.line) : a # <<>> /\ Contains(repl.error, a)

(***************************************************************************)
(* C11: with the identity rotation and the Invert operation, an all step    *)
(* samples every pixel from itself and replaces every cell by the           *)
(* per-channel complement of its prior value, so a zero matrix becomes all  *)
(* ones, and a second all step gives back the matrix the first one started  *)
(* from.                                                                    *)
(***************************************************************************)
AllInverted ==
  /\ Rendered
  /\ last.cmd.filter = FilterAll
  /\ last.before.rotation = 0
  /\ last.before.operation = Invert

Cells(m) == (0..(m.nrows - 1)) \X (0..(m.ncols - 1))

NoDraws(m) == [k \in 0..(m.nrows * m.ncols - 1) |-> zeros]

AllInvertsEveryCell ==
  AllInverted =>
    /\ \A k \in 1..Len(last.samples) :
         last.samples[k].matched /\ last.samples[k].source = last.samples[k].dest
    /\ \A p \in Cells(matrix) :
         \A c \in 1..3 : matrix.data[p][c] = 1 - last.before.matrix.data[p][c]
    /\ (\A p \in Cells(matrix) : last.before.matrix.data[p] = zeros)
         => \A p \in Cells(matrix) : matrix.data[p] = <<1, 1, 1>>
    /\ (rotation = 0 /\ operation = Invert)
         => ApplyFilter(State, FilterAll, NoDraws(matrix)).state.matrix = last.before.matrix

\* the second of two all steps, on a grid of more than one cell that the
\* first step had turned to ones
AllInvertsEveryCellWitness ==
  /\ AllInverted
  /\ Cardinality(Cells(matrix)) > 1
  /\ \A p \in Cells(matrix) : last.before.matrix.data[p] = <<1, 1, 1>>
  /\ \A p \in Cells(matrix) : matrix.data[p] = zeros

(***************************************************************************)
(* C12: resize:C:R leaves a matrix of exactly R rows and C columns in which *)
(* every cell is zero, whatever the matrix was before.                      *)
(***************************************************************************)
\* the interactive loop has applied the line it read last
ReplApplied == repl.outcome \in {"printed", "print_error"}

TypedResize ==
  /\ ReplApplied
  /\ Len(split(repl.line)) = 3
  /\ split(repl.line)[1] = KwResize

ResizeGivesColumnsByRows ==
  /\ TypedResize =>
       /\ matrix.ncols = ParseUsize(split(repl.line)[2]).value
       /\ matrix.nrows = ParseUsize(split(repl.line)[3]).value
       /\ DOMAIN matrix.data = Cells(matrix)
       /\ \A p \in Cells(matrix) : matrix.data[p] = zeros
  /\ DriverApplied("Resize") =>
       /\ matrix.nrows = last.cmd.rows
       /\ matrix.ncols = last.cmd.cols
       /\ \A p \in Cells(matrix) : matrix.data[p] = zeros

\* resize:2:1 typed when the matrix had two rows, one column and a cell that
\* was not zero
ResizeGivesColumnsByRowsWitness ==
  /\ TypedResize
  /\ repl.line = <<"r","e","s","i","z","e",":","2",":","1">>
  /\ last.before.matrix.nrows = 2
  /\ last.before.matrix.ncols = 1
  /\ \E p \in Cells(last.before.matrix) : last.before.matrix.data[p] # zeros
  /\ matrix.nrows = 1
  /\ matrix.ncols = 2

(***************************************************************************)
(* The for commands before a position, and the nearest of them.             *)
(***************************************************************************)
PrecedingFors(prog, pc) == {f \in ForIndexes(prog) : f < pc}

NearestFor(prog, pc) ==
  CHOOSE f \in PrecedingFors(prog, pc) : \A g \in PrecedingFors(prog, pc) : g <= f

\* the driver has applied a loop that has a for before it
LoopedBack ==
  /\ DriverApplied("Loop")
  /\ PrecedingFors(program, last.before.program_counter) # {}

(***************************************************************************)
(* C13: a loop leaves the program counter just after the nearest preceding  *)
(* for, so that the next command executed is the first command of the body, *)
(* and adds exactly one to the loop counter.                                *)
(***************************************************************************)
LoopResumesAtBody ==
  LoopedBack =>
    /\ program_counter = NearestFor(program, last.before.program_counter) + 1
    /\ loop_counter = last.before.loop_counter + 1

\* C13 as amended: a loop leaves the program counter one before the nearest
\* preceding for, so that the next command the driver executes is that for
\* itself, and adds exactly one to the loop counter
LoopResumesAtFor ==
  LoopedBack =>
    /\ program_counter = NearestFor(program, last.before.program_counter)
    /\ loop_counter = last.before.loop_counter + 1

\* the third pass of a loop whose for is not the first command and whose
\* body is not empty
LoopResumesAtForWitness ==
  /\ LoopedBack
  /\ NearestFor(program, last.before.program_counter) > 0
  /\ NearestFor(program, last.before.program_counter) + 1 < last.before.program_counter
  /\ program_counter = NearestFor(program, last.before.program_counter)
  /\ loop_counter = 3

(***************************************************************************)
(* C14: in a program whose blocks do not nest, the command the driver       *)
(* executes right after a loop is the for of the same block, and the first  *)
(* position after a for is only ever entered from that for, which has just  *)
(* found the loop counter below its bound.                                  *)
(***************************************************************************)
LoopRechecksItsFor ==
  (Alternating(program) /\ ~HasRepl(program)) =>
    /\ DriverApplied("Loop") =>
         /\ Current.some
         /\ Current.value.op = "For"
         /\ program_counter = MatchingFor(program, last.before.program_counter - 1, 0)
    /\ \A f \in ForIndexes(program) :
         (status = "running" /\ program_counter = f + 1) =>
           /\ DriverApplied("For")
           /\ last.before.program_counter = f
           /\ last.before.loop_counter < program[f + 1].until

\* the loop of a second block has sent the driver back to that block's for
\* for the second time
LoopRechecksItsForWitness ==
  /\ Alternating(program)
  /\ ~HasRepl(program)
  /\ DriverApplied("Loop")
  /\ Cardinality(PrecedingFors(program, last.before.program_counter)) = 2
  /\ Current.some
  /\ Current.value.op = "For"
  /\ loop_counter = 2

(***************************************************************************)
(* A for that found the loop counter at or over its bound.                  *)
(***************************************************************************)
Skipped ==
  /\ last.by \in {"driver", "repl"}
  /\ last.cmd.op = "For"
  /\ last.result = "ok"
  /\ last.before.loop_counter >= last.cmd.until

\* where apply left the program counter: the driver has advanced it since
Landed == IF last.by = "driver" THEN wrapping_sub(program_counter, 1) ELSE program_counter

LoopsAfter(prog, pc) == {l \in LoopIndexes(prog) : l > pc}

\* the first loop after pc, the length of the program when there is none
SkipTarget(prog, pc) ==
  IF LoopsAfter(prog, pc) = {} THEN Len(prog)
  ELSE CHOOSE l \in LoopsAfter(prog, pc) : \A m \in LoopsAfter(prog, pc) : l <= m

(***************************************************************************)
(* C15: a for applied with the loop counter at or over its bound moves the  *)
(* program counter to the first loop after the current position, or to the  *)
(* length of the program and never beyond it when no loop follows, and      *)
(* sets the loop counter to 0.                                              *)
(***************************************************************************)
ForSkipStaysInProgram ==
  Skipped =>
    /\ Landed = SkipTarget(program, last.before.program_counter)
    /\ Landed <= Len(program)
    /\ loop_counter = 0

\* C15 as amended: the same for a for applied at a position inside the
\* program, which is where the driver applies it
ForSkipsToFirstLoop ==
  (Skipped /\ last.before.program_counter < Len(program)) =>
    /\ Landed = SkipTarget(program, last.before.program_counter)
    /\ Landed <= Len(program)
    /\ loop_counter = 0

\* a for that ends its block after five passes, skipping a body of one
\* command, with another loop further on
ForSkipsToFirstLoopWitness ==
  /\ Skipped
  /\ last.by = "driver"
  /\ last.before.loop_counter = 5
  /\ Landed = last.before.program_counter + 2
  /\ Cardinality(LoopsAfter(program, last.before.program_counter)) = 2
  /\ executed[last.before.program_counter + 1] = 5

(***************************************************************************)
(* C16: a for applied with the loop counter below its bound changes no      *)
(* field of the State, so that the driver goes on with the command right    *)
(* after the for.                                                           *)
(***************************************************************************)
FellThrough ==
  /\ last.by \in {"driver", "repl"}
  /\ last.cmd.op = "For"
  /\ last.result = "ok"
  /\ last.before.loop_counter < last.cmd.until

ForBelowBoundChangesNothing ==
  FellThrough =>
    /\ [State EXCEPT !.program_counter = Landed] = last.before
    /\ last.by = "driver" => program_counter = last.before.program_counter + 1

\* the fourth pass through a for:5 that is not the first command
ForBelowBoundChangesNothingWitness ==
  /\ FellThrough
  /\ last.by = "driver"
  /\ last.cmd.until = 5
  /\ last.before.loop_counter = 3
  /\ last.before.program_counter > 0
  /\ loop_counter = 3

(***************************************************************************)
(* C17: a command that is not for, loop or repl leaves the program counter  *)
(* and the loop counter as they were when it is applied with success, so    *)
(* that the driver moves on by exactly one position; operation, rotate and  *)
(* verbose change only the field of their name.                             *)
(***************************************************************************)
PlainApplied ==
  /\ last.by \in {"driver", "repl"}
  /\ last.cmd.op \notin {"For", "Loop", "Repl"}
  /\ last.result = "ok"

PlainCommandsKeepCounters ==
  PlainApplied =>
    /\ Landed = last.before.program_counter
    /\ loop_counter = last.before.loop_counter
    /\ program = last.before.program
    /\ last.by = "driver" => program_counter = last.before.program_counter + 1
    /\ last.cmd.op = "Operation" =>
         [State EXCEPT !.program_counter = Landed, !.operation = last.before.operation]
           = last.before
    /\ last.cmd.op = "Rotate" =>
         [State EXCEPT !.program_counter = Landed, !.rotation = last.before.rotation]
           = last.before
    /\ last.cmd.op = "Verbose" =>
         /\ verbose # last.before.verbose
         /\ [State EXCEPT !.program_counter = Landed, !.verbose = last.before.verbose]
              = last.before

\* verbose in the body of a block, on its third pass
PlainCommandsKeepCountersWitness ==
  /\ PlainApplied
  /\ last.by = "driver"
  /\ last.cmd.op = "Verbose"
  /\ last.before.loop_counter = 2
  /\ loop_counter = 2
  /\ program_counter = last.before.program_counter + 1

(***************************************************************************)
(* C18: when the source pixel of a matched destination pixel lies outside   *)
(* the grid on either axis, the operation is applied to the zero colour:    *)
(* no other cell is read and the step does not fail.                        *)
(***************************************************************************)
\* the source pixel of sample s is outside the grid the step began with
OutOfRange(s) == s.matched /\ ~InGrid(last.before.matrix, s.source)

OutOfRangeSourceIsZero ==
  /\ (last.by \in {"driver", "repl"} /\ last.cmd.op = "Filter") => last.result = "ok"
  /\ Rendered =>
       \A k \in 1..Len(last.samples) :
         OutOfRange(last.samples[k]) =>
           /\ last.samples[k].color = zeros
           /\ last.before.operation.kind = "Invert" =>
                matrix.data[<<last.samples[k].dest.y, last.samples[k].dest.x>>] = <<1, 1, 1>>
           /\ last.before.operation.kind = "Random" =>
                matrix.data[<<last.samples[k].dest.y, last.samples[k].dest.x>>] \in Draws

\* a quarter turn sends a source pixel past the last row, while the nearest
\* cell inside the grid is not zero
OutOfRangeSourceIsZeroWitness ==
  /\ Rendered
  /\ \E k \in 1..Len(last.samples) :
       /\ OutOfRange(last.samples[k])
       /\ last.samples[k].source.y >= last.before.matrix.nrows
       /\ SampleClamped(last.before.matrix, last.before.matrix, last.samples[k].source) # zeros

\* the same past the last column
OutOfRangeColumnWitness ==
  /\ Rendered
  /\ \E k \in 1..Len(last.samples) :
       /\ OutOfRange(last.samples[k])
       /\ last.samples[k].source.x >= last.before.matrix.ncols
       /\ SampleClamped(last.before.matrix, last.before.matrix, last.samples[k].source) # zeros

(***************************************************************************)
(* C19: in a program whose blocks are closed and do not nest, the loop      *)
(* counter is at most the bound of a for whenever that for is evaluated,    *)
(* and is 0 whenever a command outside every block is executed.             *)
(***************************************************************************)
\* every for is closed by the next loop, every loop closes a for
WellFormed(prog) ==
  /\ ~HasRepl(prog)
  /\ Alternating(prog)
  /\ Len(ControlOps(prog)) % 2 = 0

\* index k lies in a block: on its for, in its body or on its loop
InBlock(prog, k) == \E f \in ForIndexes(prog) : f <= k /\ k <= LoopAfter(prog, f)

LoopCounterWithinBound ==
  (WellFormed(program) /\ last.by = "driver") =>
    /\ last.cmd.op = "For" =>
         /\ 0 <= last.before.loop_counter
         /\ last.before.loop_counter <= last.cmd.until
    /\ ~InBlock(program, last.before.program_counter) => last.before.loop_counter = 0

\* the command right after the loop of a for:5 block that has run its five
\* passes, in a program of two blocks
LoopCounterWithinBoundWitness ==
  /\ WellFormed(program)
  /\ Len(ControlOps(program)) = 4
  /\ last.by = "driver"
  /\ ~InBlock(program, last.before.program_counter)
  /\ last.before.program_counter > 0
  /\ executed[last.before.program_counter - 1] = 5
  /\ program[last.before.program_counter].op = "Loop"

(***************************************************************************)
(* C20: a loop applied where no for precedes it leaves the program counter  *)
(* at the wrapped value usize::MAX, so that the driver resumes at index 0,  *)
(* with the loop counter incremented by one.                                *)
(***************************************************************************)
\* a loop applied at a position of the program that has no for before it
StrayLoop ==
  /\ last.by \in {"driver", "repl"}
  /\ last.cmd.op = "Loop"
  /\ last.before.program_counter < Len(program)
  /\ PrecedingFors(program, last.before.program_counter) = {}

StrayLoopCountsOne ==
  StrayLoop =>
    /\ last.result = "ok"
    /\ Landed = UsizeMax
    /\ last.by = "driver" => program_counter = 0
    /\ loop_counter = last.before.loop_counter + 1

\* C20 as amended: the same while the loop counter is below usize::MAX; at
\* usize::MAX the increment overflows after the scan, and the build either
\* panics with the loop counter as it was or wraps it to 0
StrayLoopWrapsToStart ==
  StrayLoop =>
    /\ last.result \in {"ok", "panic"}
    /\ last.result = "ok" =>
         /\ Landed = UsizeMax
         /\ last.by = "driver" => program_counter = 0
         /\ last.before.loop_counter < UsizeMax =>
              loop_counter = last.before.loop_counter + 1
         /\ last.before.loop_counter = UsizeMax => loop_counter = 0
    /\ last.result = "panic" =>
         /\ last.before.loop_counter = UsizeMax
         /\ program_counter = UsizeMax
         /\ loop_counter = UsizeMax

\* the third pass of a loop that is not the first command and has no for
\* before it
StrayLoopWrapsToStartWitness ==
  /\ StrayLoop
  /\ last.by = "driver"
  /\ last.result = "ok"
  /\ last.before.program_counter > 0
  /\ program_counter = 0
  /\ loop_counter = 3

====
